---- MODULE Spec2Model ----
(***************************************************************************)
(* Token discovery and balance aggregation of the multichain balance       *)
(* service: the NEAR metadata cache (getNearTokenMetadata), the balance    *)
(* fetch (getNearTokenBalance), the scam classifier                        *)
(* (isNearLikelyScamToken) and the windowed orchestrator                   *)
(* (processNearTokensWithBalances) of src/src/combined.mjs, which          *)
(* src/unnamed/part_000 repeats under the names getFullTokenMetadata,      *)
(* getTokenBalance, isLikelyScamToken and processTokensWithBalances.       *)
(*                                                                         *)
(* Optional JavaScript values (null / undefined / a value) are sequences   *)
(* of length at most one: << >> is the absent value, <<v>> the value v.    *)
(***************************************************************************)
EXTENDS Integers, Sequences, FiniteSets, TLC

VARIABLES
  upstream,        \* per contract, the ft_metadata payload the chain serves
  nearTokenCache,  \* the module-level Map: contract id -> {data, timestamp}
  now,             \* Date.now(), in milliseconds
  contractIds,     \* argument of processNearTokensWithBalances
  concurrency,     \* argument of processNearTokensWithBalances
  pc,              \* "called" | "await" (Promise.all of a window) | "done"
  i,               \* the loop variable: start index of the current window
  metaState,       \* per position: "idle" | "pending" | "settled"
  metaVia,         \* per position: "none" | "cache" | "upstream"
  metadata,        \* per position: what getNearTokenMetadata resolved to
  balState,        \* per position: "idle" | "pending" | "settled"
  balance,         \* per position: what getNearTokenBalance resolved to
  items,           \* per position: what its batch.map callback resolved to
  results,         \* the results array
  windows          \* the batches launched so far, as <<start, length>>

VARIABLES
  request,         \* the HTTP request being served: service, route, network, addresses
  hpc,             \* "idle" | "received" | "await" (Promise.all or a fetch) | "index" |
                   \* "aggregate" | "responded"
  slots,           \* per address of the request: state of its callback, calls issued, outcome
  response,        \* Null, or Some of the status and body sent
  tokenAccounts,   \* the token accounts the Solana RPC serves for the owner
  timer            \* the timeout of the NEAR token handler: state, deadline, fired

vars == <<upstream, nearTokenCache, now, contractIds, concurrency, pc, i,
          metaState, metaVia, metadata, balState, balance, items, results, windows,
          request, hpc, slots, response, tokenAccounts, timer>>

\* The state of the HTTP handlers.
httpVars == <<request, hpc, slots, response, tokenAccounts, timer>>

(***************************************************************************)
(* Bounds of the model.                                                    *)
(***************************************************************************)
MaxN == 3          \* longest contractIds list of Spec
MaxW == 2          \* largest concurrency of Spec
MaxTicks == 2      \* how many times the clock advances
MaxCacheN == 3     \* longest contractIds list of SpecCache
MaxItemN == 2      \* longest contractIds list of SpecClassify
MaxWinN == 12      \* longest contractIds list of SpecWin
MaxWinW == 5       \* largest concurrency of SpecWin
MaxLiveN == 4      \* longest contractIds list of SpecLive

(***************************************************************************)
(* Optional values.                                                        *)
(***************************************************************************)
Null == << >>
Some(v) == <<v>>
Val(o) == o[1]
Min(a, b) == IF a < b THEN a ELSE b

(***************************************************************************)
(* Configuration: NETWORKS_CONFIG.near.                                    *)
(***************************************************************************)
CACHE_TTL == 30000

\* concurrency = 5, the default of the parameter
DefaultConcurrency == 5

VERIFIED_TOKENS ==
  { "usdt.tether-token.near",
    "17208628f84f5d6ad33f0da3bbbeb27ffcb398eac501a31bd6ad2011e36133a1",
    "wrap.near",
    "token.v2.ref-finance.near",
    "meta-pool.near",
    "linear-protocol.near" }

\* The three regular expressions.  A pattern is the set of its alternatives
\* and whether it carries the i flag.  The third one is a character class of
\* emoji; "$" and "!" stand for two of its members.
SCAM_PATTERNS ==
  << [alts |-> {"free", "airdrop", "reward", "giveaway", "claim", "won", "raffle"},
      ignoreCase |-> TRUE],
     [alts |-> {"http", "www", ".com", ".org", ".net"},
      ignoreCase |-> TRUE],
     [alts |-> {"$", "!"},
      ignoreCase |-> FALSE] >>

(***************************************************************************)
(* Strings: String.prototype.trim, case folding, RegExp.prototype.test.    *)
(***************************************************************************)
UpperCase == "ABCDEFGHIJKLMNOPQRSTUVWXYZ"
LowerCase == "abcdefghijklmnopqrstuvwxyz"

LowerChar(c) ==
  IF \E k \in 1..Len(UpperCase) : SubSeq(UpperCase, k, k) = c
  THEN LET k == CHOOSE k \in 1..Len(UpperCase) : SubSeq(UpperCase, k, k) = c
       IN  SubSeq(LowerCase, k, k)
  ELSE c

RECURSIVE ToLower(_)
ToLower(s) ==
  IF Len(s) = 0 THEN s
  ELSE LowerChar(SubSeq(s, 1, 1)) \o ToLower(SubSeq(s, 2, Len(s)))

RECURSIVE Trim(_)
Trim(s) ==
  IF Len(s) = 0 THEN s
  ELSE IF SubSeq(s, 1, 1) = " " THEN Trim(SubSeq(s, 2, Len(s)))
  ELSE IF SubSeq(s, Len(s), Len(s)) = " " THEN Trim(SubSeq(s, 1, Len(s) - 1))
  ELSE s

Contains(s, sub) ==
  \E k \in 1..(Len(s) - Len(sub) + 1) : SubSeq(s, k, k + Len(sub) - 1) = sub

\* pattern.test(s)
Test(pattern, s) ==
  LET subject == IF pattern.ignoreCase THEN ToLower(s) ELSE s
  IN  \E alt \in pattern.alts : Contains(subject, alt)

\* Variant: the reference is not tested.
isNearLikelyScamTokenNoReference(token) ==
  \E k \in 1..Len(SCAM_PATTERNS) :
     \/ Test(SCAM_PATTERNS[k], token.symbol)
     \/ Test(SCAM_PATTERNS[k], token.contract)

\* isNearLikelyScamToken(token)
isNearLikelyScamToken(token) ==
  \E k \in 1..Len(SCAM_PATTERNS) :
     \/ Test(SCAM_PATTERNS[k], token.symbol)
     \/ Test(SCAM_PATTERNS[k], token.contract)
     \/ (token.reference # Null /\ Test(SCAM_PATTERNS[k], Val(token.reference)))

(***************************************************************************)
(* Numbers: Number(text), 10 ** decimals, Number.prototype.toFixed(4).     *)
(* A number is <<n>> for the integer n, or NaN.                            *)
(***************************************************************************)
Digits == "0123456789"
NaN == << >>

IsDigit(c) == \E k \in 1..10 : SubSeq(Digits, k, k) = c
DigitValue(c) == (CHOOSE k \in 1..10 : SubSeq(Digits, k, k) = c) - 1
DigitChar(d) == SubSeq(Digits, d + 1, d + 1)

RECURSIVE DigitsValue(_)
DigitsValue(s) ==
  IF Len(s) = 0 THEN 0
  ELSE 10 * DigitsValue(SubSeq(s, 1, Len(s) - 1)) + DigitValue(SubSeq(s, Len(s), Len(s)))

\* Number(text): the empty string is 0, a string of digits is its value,
\* anything else (a quote, a letter) is NaN.
ToNumber(text) ==
  IF \A k \in 1..Len(text) : IsDigit(SubSeq(text, k, k))
  THEN <<DigitsValue(text)>>
  ELSE NaN

RECURSIVE Pow10(_)
Pow10(d) == IF d = 0 THEN 1 ELSE 10 * Pow10(d - 1)

RECURSIVE NatToString(_)
NatToString(n) ==
  IF n < 10 THEN DigitChar(n)
  ELSE NatToString(n \div 10) \o DigitChar(n % 10)

\* n as exactly four digits, zero padded
Pad4(n) ==
  (IF n < 1000 THEN "0" ELSE "") \o (IF n < 100 THEN "0" ELSE "") \o
  (IF n < 10 THEN "0" ELSE "") \o NatToString(n)

\* (value / 10 ** decimals).toFixed(4): the quotient rounded to the nearest
\* multiple of 0.0001, the larger one on a tie.
ToFixed4(value, decimals) ==
  IF value = NaN THEN "NaN"
  ELSE LET unit  == Pow10(decimals)
           whole == Val(value) \div unit
           frac  == Val(value) % unit
           ten4  == IF decimals >= 4
                    THEN LET cut == Pow10(decimals - 4)
                         IN  (frac \div cut) + (IF 2 * (frac % cut) >= cut THEN 1 ELSE 0)
                    ELSE frac * Pow10(4 - decimals)
       IN  IF ten4 = 10000
           THEN NatToString(whole + 1) \o ".0000"
           ELSE NatToString(whole) \o "." \o Pad4(ten4)

(***************************************************************************)
(* getNearTokenMetadata: the cache test and the parse of a fetched payload.*)
(***************************************************************************)
\* metadata.icon || null, metadata.reference || null
OrNull(field) == IF field = Null \/ field = Some("") THEN Null ELSE field

\* lines 231-239: the payload of a fetch that answered, as tokenData
ParseMetadata(raw) ==
  IF raw.symbol = Null \/ raw.symbol = Some("") \/ raw.decimals = Null
  THEN Null
  ELSE Some([symbol    |-> Trim(Val(raw.symbol)),
             decimals  |-> Val(raw.decimals),
             icon      |-> OrNull(raw.icon),
             reference |-> OrNull(raw.reference)])

\* What the fetch of lines 210-249 yields: "ok" answers with the payload,
\* "network" throws in fetch, "noresult" lacks result.result, "badjson"
\* throws in JSON.parse, "nosymbol" and "nodecimals" answer with the payload
\* short of that field.
MetaOutcomes == {"ok", "network", "noresult", "badjson", "nosymbol", "nodecimals"}
FetchedMetadata(outcome, raw) ==
  CASE outcome = "ok" -> ParseMetadata(raw)
    [] outcome = "nosymbol" -> ParseMetadata([raw EXCEPT !.symbol = Null])
    [] outcome = "nodecimals" -> ParseMetadata([raw EXCEPT !.decimals = Null])
    [] OTHER -> Null

\* Variant: the entry still counts as fresh at an age of exactly CACHE_TTL.
CacheFreshInclusive(cache, contractId, t) ==
  /\ cache[contractId] # Null
  /\ (t - Val(cache[contractId]).timestamp) <= CACHE_TTL

\* line 206: cached && (Date.now() - cached.timestamp) < CACHE_TTL
CacheFresh(cache, contractId, t) ==
  /\ cache[contractId] # Null
  /\ (t - Val(cache[contractId]).timestamp) < CACHE_TTL

\* Variant: a fetch that completes while a fresh entry is stored leaves the
\* entry alone (the first write wins).
CacheAfterFetchKeepFirst(cache, contractId, fetched, t) ==
  IF fetched = Null \/ CacheFresh(cache, contractId, t) THEN cache
  ELSE [cache EXCEPT ![contractId] = Some([data |-> Val(fetched), timestamp |-> t])]

\* Variant: the entry is written under every key.
CacheAfterFetchAllKeys(cache, contractId, fetched, t) ==
  IF fetched = Null THEN cache
  ELSE [id \in DOMAIN cache |-> Some([data |-> Val(fetched), timestamp |-> t])]

\* Variant: a failed fetch is stored as an entry without fields.
CacheAfterFetchNegative(cache, contractId, fetched, t) ==
  IF fetched = Null
  THEN [cache EXCEPT ![contractId] =
          Some([data |-> [symbol |-> "", decimals |-> 0, icon |-> Null, reference |-> Null],
                timestamp |-> t])]
  ELSE [cache EXCEPT ![contractId] = Some([data |-> Val(fetched), timestamp |-> t])]

\* Variant: every completed fetch first purges the entries older than the
\* TTL.
CacheAfterFetchPurging(cache, contractId, fetched, t) ==
  LET purged == [id \in DOMAIN cache |->
                   IF CacheFresh(cache, id, t) THEN cache[id] ELSE Null]
  IN  IF fetched = Null THEN purged
      ELSE [purged EXCEPT ![contractId] = Some([data |-> Val(fetched), timestamp |-> t])]

\* Variant: a failed fetch evicts the entry.
CacheAfterFetchEvicting(cache, contractId, fetched, t) ==
  IF fetched = Null THEN [cache EXCEPT ![contractId] = Null]
  ELSE [cache EXCEPT ![contractId] = Some([data |-> Val(fetched), timestamp |-> t])]

\* lines 241-244: nearTokenCache.set(contractId, {data, timestamp}) on a
\* fetch that produced tokenData; every other path returns before the set.
CacheAfterFetch(cache, contractId, fetched, t) ==
  IF fetched = Null THEN cache
  ELSE [cache EXCEPT ![contractId] = Some([data |-> Val(fetched), timestamp |-> t])]

(***************************************************************************)
(* getNearTokenBalance.                                                    *)
(***************************************************************************)
BalOutcomes == {"ok", "network", "noresult"}
FetchedBalance(outcome, text) ==
  IF outcome = "ok" THEN Some(text) ELSE Null

(***************************************************************************)
(* The callback of batch.map, after its Promise.all (lines 263-280).       *)
(***************************************************************************)
BuildToken(contractId, md, bal) ==
  [contract          |-> contractId,
   symbol            |-> md.symbol,
   decimals          |-> md.decimals,
   balance           |-> bal,
   formatted_balance |-> ToFixed4(ToNumber(bal), md.decimals),
   icon              |-> md.icon,
   reference         |-> md.reference,
   verified          |-> contractId \in VERIFIED_TOKENS]

\* Variant: the scam test runs before the allow-list test.
ProcessItemScamFirst(contractId, md, bal) ==
  IF md = Null \/ bal = Null THEN Null
  ELSE LET token == BuildToken(contractId, Val(md), Val(bal))
       IN  IF isNearLikelyScamToken(token) THEN Null
           ELSE IF contractId \in VERIFIED_TOKENS THEN Some(token)
           ELSE IF Val(md).reference # Null \/ Val(md).icon # Null THEN Some(token)
           ELSE Null

\* Variant: a token that matches no pattern is kept without icon or reference.
ProcessItemKeepBare(contractId, md, bal) ==
  IF md = Null \/ bal = Null THEN Null
  ELSE LET token == BuildToken(contractId, Val(md), Val(bal))
       IN  IF contractId \in VERIFIED_TOKENS THEN Some(token)
           ELSE IF isNearLikelyScamToken(token) THEN Null
           ELSE Some(token)

ProcessItem(contractId, md, bal) ==
  IF md = Null \/ bal = Null THEN Null
  ELSE LET token == BuildToken(contractId, Val(md), Val(bal))
       IN  IF contractId \in VERIFIED_TOKENS THEN Some(token)
           ELSE IF isNearLikelyScamToken(token) THEN Null
           ELSE IF Val(md).reference # Null \/ Val(md).icon # Null THEN Some(token)
           ELSE Null

(***************************************************************************)
(* The inputs of the model: contract ids, the payloads ft_metadata may     *)
(* serve and the texts ft_balance_of may serve.                            *)
(***************************************************************************)
Ids == {"wrap.near", "tok.near", "free-claim.near"}

\* The contracts the lists of Spec are made of.
CallIds == {"wrap.near", "tok.near"}

Raw(symbol, decimals, icon, reference) ==
  [symbol |-> symbol, decimals |-> decimals, icon |-> icon, reference |-> reference]

RawShapes ==
  { Raw(Some("wNEAR"), Some(6), Some("data:image/svg"), Null),
    Raw(Some(" FREEAIRDROP "), Some(6), Null, Null),
    Raw(Some("Claim"), Some(6), Some("data:image/svg"), Some("ipfs://meta")),
    Raw(Some("TOK"), Some(6), Some(""), Null),
    Raw(Some("TOK"), Some(2), Null, Some("ipfs://meta")),
    Raw(Some("TOK"), Some(6), Some("data:image/svg"), Some("www.tok.io")),
    Raw(Some("TOK$"), Some(0), Some("data:image/svg"), Null),
    Raw(Some(""), Some(6), Some("data:image/svg"), Null) }

\* One world serves a different payload per contract, the others serve the
\* same payload shape for every contract.
MixedWorld ==
  [id \in Ids |->
     IF id = "wrap.near" THEN Raw(Some(" FREEAIRDROP "), Some(6), Null, Null)
     ELSE IF id = "tok.near" THEN Raw(Some("TOK"), Some(2), Null, Some("ipfs://meta"))
     ELSE Raw(Some("wNEAR"), Some(6), Some("data:image/svg"), Null)]

Worlds == {MixedWorld} \cup { [id \in Ids |-> shape] : shape \in RawShapes }

\* The balance of the account in base units, per contract.
ChainBalance ==
  [id \in Ids |-> IF id = "wrap.near" THEN "1500000" ELSE IF id = "tok.near" THEN "25" ELSE "7"]

\* The bytes of result.result for ft_balance_of (line 198): the JSON text of
\* the contract's return value.  A fungible-token contract returns the
\* balance as a JSON string; "tok.near" stands for a contract that returns
\* a bare JSON number.
JsonString(text) == "\"" \o text \o "\""
BalancePayload ==
  [id \in Ids |-> IF id = "tok.near" THEN ChainBalance[id] ELSE JsonString(ChainBalance[id])]

SeqsUpTo(S, n) == UNION { [1..k -> S] : k \in 0..n }

\* Variant: the slice is one element too long.
BatchPositionsLong(ids, start, w) == (start + 1) .. Min(start + w + 1, Len(ids))

\* contractIds.slice(i, i + concurrency), as positions 1..length
BatchPositions(ids, start, w) == (start + 1) .. Min(start + w, Len(ids))

TickMs == CACHE_TTL \div 2

(***************************************************************************)
(* State after construction, with the arguments of one call of             *)
(* processNearTokensWithBalances chosen.                                   *)
(***************************************************************************)
\* No HTTP request is being served.
NoRequest == [service |-> "none", route |-> "none", network |-> "none", addresses |-> << >>]

\* let timeout; (part_000 line 284)
NoTimer == [state |-> "none", deadline |-> 0, fired |-> FALSE]

InitHttpIdle ==
  /\ request = NoRequest
  /\ hpc = "idle"
  /\ slots = << >>
  /\ response = << >>
  /\ tokenAccounts = << >>
  /\ timer = NoTimer

InitCallVars(ids, w, world) ==
  /\ upstream = world
  /\ nearTokenCache = [id \in Ids |-> Null]
  /\ now = 0
  /\ contractIds = ids
  /\ concurrency = w
  /\ pc = "called"
  /\ i = 0
  /\ metaState = [p \in 1..Len(ids) |-> "idle"]
  /\ metaVia = [p \in 1..Len(ids) |-> "none"]
  /\ metadata = [p \in 1..Len(ids) |-> Null]
  /\ balState = [p \in 1..Len(ids) |-> "idle"]
  /\ balance = [p \in 1..Len(ids) |-> Null]
  /\ items = [p \in 1..Len(ids) |-> Null]
  /\ results = << >>
  /\ windows = << >>

InitCall(ids, w, world) == InitHttpIdle /\ InitCallVars(ids, w, world)

Init ==
  \E ids \in SeqsUpTo(CallIds, MaxN), w \in 0..MaxW :
     InitCall(ids, w, MixedWorld)

\* The same call on a list that repeats one contract.
InitCache ==
  \E n \in 0..MaxCacheN, w \in 1..MaxW :
     InitCall([p \in 1..n |-> "wrap.near"], w, MixedWorld)

\* The same call on longer lists of one contract, with every window size
\* from 0.
InitLive ==
  \E n \in 0..MaxLiveN, w \in 0..MaxW :
     InitCall([p \in 1..n |-> "wrap.near"], w, MixedWorld)

\* The same call over short lists, in every world, with the default
\* concurrency.
InitClassify ==
  \E ids \in SeqsUpTo(Ids, MaxItemN), world \in Worlds :
     InitCall(ids, DefaultConcurrency, world)

(***************************************************************************)
(* processNearTokensWithBalances.                                          *)
(***************************************************************************)
\* Variant: an absent item discards the rest of the batch.
RECURSIVE FilterBooleanAborting(_)
FilterBooleanAborting(array) ==
  IF Len(array) = 0 THEN << >>
  ELSE IF Head(array) = Null THEN << >>
  ELSE <<Val(Head(array))>> \o FilterBooleanAborting(Tail(array))

\* batchResults.filter(Boolean)
RECURSIVE FilterBoolean(_)
FilterBoolean(array) ==
  IF Len(array) = 0 THEN << >>
  ELSE IF Head(array) = Null THEN FilterBoolean(Tail(array))
  ELSE <<Val(Head(array))>> \o FilterBoolean(Tail(array))

\* The for statement from the test of i on (lines 255-261, 287): either the
\* next window is launched, every callback running up to its first await
\* (the cache test of getNearTokenMetadata, then both fetches), or the
\* function returns.
Loop(start, res, its) ==
  LET batch == BatchPositions(contractIds, start, concurrency)
      fresh(p) == CacheFresh(nearTokenCache, contractIds[p], now)
  IN  /\ i' = start
      /\ results' = res
      /\ items' = its
      /\ IF start < Len(contractIds)
         THEN /\ pc' = "await"
              /\ metaState' = [p \in DOMAIN metaState |->
                    IF p \in batch
                    THEN (IF fresh(p) THEN "settled" ELSE "pending")
                    ELSE metaState[p]]
              /\ metaVia' = [p \in DOMAIN metaVia |->
                    IF p \in batch
                    THEN (IF fresh(p) THEN "cache" ELSE "upstream")
                    ELSE metaVia[p]]
              /\ metadata' = [p \in DOMAIN metadata |->
                    IF p \in batch /\ fresh(p)
                    THEN Some(Val(nearTokenCache[contractIds[p]]).data)
                    ELSE metadata[p]]
              /\ balState' = [p \in DOMAIN balState |->
                    IF p \in batch THEN "pending" ELSE balState[p]]
              /\ UNCHANGED balance
         ELSE /\ pc' = "done"
              /\ UNCHANGED <<metaState, metaVia, metadata, balState, balance>>

\* What a launch from start appends to the record of launched windows.
WindowsAfter(start) ==
  IF start < Len(contractIds)
  THEN Append(windows, <<start, Cardinality(BatchPositions(contractIds, start, concurrency))>>)
  ELSE windows

\* The call: results = [], i = 0, first test of the loop.
CallStart ==
  /\ pc = "called"
  /\ Loop(0, << >>, items)
  /\ UNCHANGED <<upstream, nearTokenCache, now, contractIds, concurrency>>

CallBody == CallStart /\ UNCHANGED httpVars

Call == CallBody /\ UNCHANGED windows

\* The ft_metadata fetch of position p settles (lines 210-249).
MetaSettle(p, outcome) ==
  /\ pc = "await"
  /\ metaState[p] = "pending"
  /\ LET fetched == FetchedMetadata(outcome, upstream[contractIds[p]])
     IN  /\ nearTokenCache' = CacheAfterFetch(nearTokenCache, contractIds[p], fetched, now)
         /\ metadata' = [metadata EXCEPT ![p] = fetched]
  /\ metaState' = [metaState EXCEPT ![p] = "settled"]
  /\ UNCHANGED <<upstream, now, contractIds, concurrency, pc, i, metaVia,
                 balState, balance, items, results, windows>>
  /\ UNCHANGED httpVars

\* The ft_balance_of fetch of position p settles (lines 176-202).
BalSettle(p, outcome) ==
  /\ pc = "await"
  /\ balState[p] = "pending"
  /\ balance' = [balance EXCEPT ![p] = FetchedBalance(outcome, BalancePayload[contractIds[p]])]
  /\ balState' = [balState EXCEPT ![p] = "settled"]
  /\ UNCHANGED <<upstream, nearTokenCache, now, contractIds, concurrency, pc, i,
                 metaState, metaVia, metadata, items, results, windows>>
  /\ UNCHANGED httpVars

\* Variant: the window is left as soon as one callback has settled
\* (Promise.race instead of Promise.all).
WindowSettledRace ==
  \E p \in BatchPositions(contractIds, i, concurrency) :
     metaState[p] = "settled" /\ balState[p] = "settled"

\* Every promise of the window has settled.
WindowSettled ==
  \A p \in BatchPositions(contractIds, i, concurrency) :
     metaState[p] = "settled" /\ balState[p] = "settled"

\* Variant: batchResults in reverse batch order.
BatchResultsReversed ==
  LET size == Cardinality(BatchPositions(contractIds, i, concurrency))
  IN  [k \in 1..size |->
         ProcessItem(contractIds[i + size + 1 - k], metadata[i + size + 1 - k],
                     balance[i + size + 1 - k])]

\* await Promise.all(batchPromises) resumes: batchResults in batch order,
\* results.push(...), i += concurrency, next test of the loop.
BatchResults ==
  [k \in 1..Cardinality(BatchPositions(contractIds, i, concurrency)) |->
     ProcessItem(contractIds[i + k], metadata[i + k], balance[i + k])]

\* Variant: the step is one more than the window.
NextStartSkipping(start, w) == start + w + 1

\* Variant: the step is one less than the window.
NextStartStalling(start, w) == start + w - 1

\* i += concurrency
NextStart(start, w) == start + w

JoinSteps ==
  /\ pc = "await"
  /\ WindowSettled
  /\ Loop(NextStart(i, concurrency),
          results \o FilterBoolean(BatchResults),
          [p \in DOMAIN items |->
             IF p \in BatchPositions(contractIds, i, concurrency)
             THEN BatchResults[p - i] ELSE items[p]])
  /\ UNCHANGED <<upstream, nearTokenCache, now, contractIds, concurrency>>

JoinBody == JoinSteps /\ UNCHANGED httpVars

JoinWindow == JoinBody /\ UNCHANGED windows

\* Time passes.
Tick ==
  /\ pc # "done"
  /\ now < MaxTicks * TickMs
  /\ now' = now + TickMs
  /\ UNCHANGED <<upstream, nearTokenCache, contractIds, concurrency, pc, i,
                 metaState, metaVia, metadata, balState, balance, items, results,
                 windows>>
  /\ UNCHANGED httpVars

\* The call while the clock stands still.
Next ==
  \/ Call
  \/ \E p \in DOMAIN metaState, outcome \in MetaOutcomes : MetaSettle(p, outcome)
  \/ \E p \in DOMAIN balState, outcome \in BalOutcomes : BalSettle(p, outcome)
  \/ JoinWindow

\* The call while time passes.
NextTimed ==
  \/ Call
  \/ \E p \in DOMAIN metaState, outcome \in MetaOutcomes : MetaSettle(p, outcome)
  \/ \E p \in DOMAIN balState, outcome \in BalOutcomes : BalSettle(p, outcome)
  \/ JoinWindow
  \/ Tick

Spec == Init /\ [][Next]_vars

\* The call when every fetch settles and every continuation that can run
\* does run.
SpecLive == InitLive /\ [][Next]_vars /\ WF_vars(Next)

SpecCache == InitCache /\ [][NextTimed]_vars

SpecClassify == InitClassify /\ [][Next]_vars

(***************************************************************************)
(* The partition into windows on long lists: the same call, with the       *)
(* launched windows recorded and the fetches settling in position order.   *)
(***************************************************************************)
IdList == <<"wrap.near", "tok.near", "free-claim.near">>
CyclicIds(n) == [p \in 1..n |-> IdList[((p - 1) % 3) + 1]]

InitWin ==
  \E n \in 0..MaxWinN, w \in 1..MaxWinW : InitCall(CyclicIds(n), w, MixedWorld)

FirstPending(state) ==
  CHOOSE p \in DOMAIN state :
     state[p] = "pending" /\ \A q \in DOMAIN state : state[q] = "pending" => p <= q

WinCall == CallBody /\ windows' = WindowsAfter(0)

WinMetaSettle ==
  /\ \E p \in DOMAIN metaState : metaState[p] = "pending"
  /\ MetaSettle(FirstPending(metaState), "ok")

WinBalSettle ==
  /\ \A p \in DOMAIN metaState : metaState[p] # "pending"
  /\ \E p \in DOMAIN balState : balState[p] = "pending"
  /\ BalSettle(FirstPending(balState), "ok")

WinJoin == JoinBody /\ windows' = WindowsAfter(NextStart(i, concurrency))

NextWin == WinCall \/ WinMetaSettle \/ WinBalSettle \/ WinJoin

SpecWin == InitWin /\ [][NextWin]_vars

(***************************************************************************)
(* Properties.                                                             *)
(***************************************************************************)
Positions == 1..Len(contractIds)
Launched(p) == balState[p] # "idle"
Completed(p) == metaState[p] = "settled" /\ balState[p] = "settled"
Outstanding == {p \in Positions : Launched(p) /\ ~Completed(p)}

\* The lookup of position p starts in this step.
LookupStarts(p) == metaVia[p] = "none" /\ metaVia'[p] # "none"

\* C1: a metadata lookup goes upstream exactly when the cache holds no entry
\* for the contract or the entry's age, now - timestamp, is at least
\* CACHE_TTL; otherwise it resolves to the stored data without a fetch.
C1_FetchIffMissOrStale ==
  [][\A p \in Positions : LookupStarts(p) =>
        LET entry == nearTokenCache[contractIds[p]]
            stale == entry = Null \/ now - Val(entry).timestamp >= CACHE_TTL
        IN  /\ (metaVia'[p] = "upstream") <=> stale
            /\ stale => metaState'[p] = "pending"
            /\ ~stale => /\ metaVia'[p] = "cache"
                         /\ metaState'[p] = "settled"
                         /\ metadata'[p] = Some(Val(entry).data)
                         /\ nearTokenCache' = nearTokenCache]_vars

\* Three lookups of one contract, one at a time: the first fetched and
\* stored, the second was served from the cache, the third fetched again.
C1_Witness ==
  /\ concurrency = 1
  /\ \E p, q, r \in Positions :
        /\ p < q /\ q < r
        /\ contractIds[p] = contractIds[q] /\ contractIds[q] = contractIds[r]
        /\ metaVia[p] = "upstream" /\ metadata[p] # Null
        /\ metaVia[q] = "cache"
        /\ metaVia[r] = "upstream"

\* The fetch of position p settles as absent in this step.
FetchFails(p) ==
  metaState[p] = "pending" /\ metaState'[p] = "settled" /\ metadata'[p] = Null

\* C2: a lookup whose fetch fails resolves to absent and leaves the cache as
\* it was: a prior entry keeps its data and timestamp, no entry is created.
C2_FailedFetchLeavesCache ==
  [][\A p \in Positions : FetchFails(p) => nearTokenCache' = nearTokenCache]_vars

\* A lookup found a stale entry, fetched and failed; the entry is still there.
C2_Witness ==
  \E p \in Positions :
     /\ metaVia[p] = "upstream" /\ metaState[p] = "settled" /\ metadata[p] = Null
     /\ nearTokenCache[contractIds[p]] # Null
     /\ now - Val(nearTokenCache[contractIds[p]]).timestamp >= CACHE_TTL
     /\ \A q \in Positions : q # p => ~(Launched(q) /\ ~Completed(q))

\* The window of position p, for concurrency >= 1.
WindowOf(p) == (p - 1) \div concurrency

\* C3: no fetch of a later window is started before every fetch pair of an
\* earlier window has completed.
C3_JoinBarrier ==
  concurrency >= 1 =>
    \A p, q \in Positions :
       (WindowOf(p) < WindowOf(q) /\ Launched(q)) => Completed(p)

\* A second window is in flight.
C3_Witness ==
  /\ concurrency >= 1
  /\ \E q \in Positions : WindowOf(q) >= 1 /\ Launched(q) /\ ~Completed(q)

\* C4: with concurrency >= 1, at most concurrency fetch pairs are launched
\* and not yet completed.
C4_OutstandingBounded ==
  concurrency >= 1 => Cardinality(Outstanding) <= concurrency

\* A full window of two pairs is outstanding.
C4_Witness ==
  concurrency = 2 /\ Cardinality(Outstanding) = 2

Ceil(n, w) == (n + w - 1) \div w
WindowStart(k) == windows[k][1]
WindowSize(k) == windows[k][2]

\* C5: the list of length n is cut into ceil(n / w) consecutive windows,
\* launched in order, each of w ids but the last, which has the rest; every
\* position lies in exactly one window; 12 ids with w = 5 give 5, 5, 2.
C5_WindowsPartition ==
  pc = "done" =>
    LET n == Len(contractIds)
        w == concurrency
        count == Ceil(n, w)
    IN  /\ Len(windows) = count
        /\ \A k \in 1..count :
              /\ WindowStart(k) = (k - 1) * w
              /\ WindowSize(k) = IF k < count THEN w ELSE n - w * (count - 1)
        /\ \A p \in 1..n :
              Cardinality({k \in 1..Len(windows) :
                             WindowStart(k) < p /\ p <= WindowStart(k) + WindowSize(k)}) = 1
        /\ (n = 12 /\ w = 5) => windows = << <<0, 5>>, <<5, 5>>, <<10, 2>> >>

\* The call on 12 ids with concurrency 5 has returned after three windows.
C5_Witness ==
  /\ pc = "done"
  /\ Len(contractIds) = 12 /\ concurrency = 5
  /\ windows = << <<0, 5>>, <<5, 5>>, <<10, 2>> >>

RECURSIVE IsSubsequence(_, _)
IsSubsequence(sub, full) ==
  IF Len(sub) = 0 THEN TRUE
  ELSE IF Len(full) = 0 THEN FALSE
  ELSE IF Head(sub) = Head(full) THEN IsSubsequence(Tail(sub), Tail(full))
  ELSE IsSubsequence(sub, Tail(full))

ResultContracts == [k \in 1..Len(results) |-> results[k].contract]

\* C6: the contracts of the returned tokens form a subsequence of
\* contractIds, whatever the order in which the fetches settled.
C6_OutputInCandidateOrder == IsSubsequence(ResultContracts, contractIds)

\* Three tokens of two contracts returned from two windows of two.
C6_Witness ==
  /\ pc = "done" /\ concurrency = 2
  /\ Len(results) = 3
  /\ results[1].contract # results[2].contract

Survivors == {p \in Positions : items[p] # Null}
Rank(p) == Cardinality({q \in Survivors : q <= p})
InOutput(p) ==
  /\ items[p] # Null
  /\ Rank(p) <= Len(results)
  /\ results[Rank(p)] = Val(items[p])
  /\ results[Rank(p)].contract = contractIds[p]
AbsentFromOutput(p) == items[p] = Null /\ Len(results) = Cardinality(Survivors)

\* C7: a contract whose metadata or balance is absent is dropped and the
\* call returns; every position's item is decided by its own contract,
\* metadata and balance, and the survivors are returned in position order.
C7_DropsAreSilent ==
  pc = "done" =>
    /\ \A p \in Positions :
          /\ (metadata[p] = Null \/ balance[p] = Null) => AbsentFromOutput(p)
          /\ items[p] = ProcessItem(contractIds[p], metadata[p], balance[p])
    /\ Len(results) = Cardinality(Survivors)
    /\ \A p \in Survivors : InOutput(p)

\* One position lost its metadata, another its balance, and a later one of
\* the same call is in the output.
C7_Witness ==
  /\ pc = "done" /\ concurrency = 2
  /\ \E p, q, r \in Positions :
        /\ metadata[p] = Null /\ metaVia[p] = "upstream"
        /\ metadata[q] # Null /\ balance[q] = Null
        /\ p < r /\ q < r /\ InOutput(r)

\* Some scam pattern matches the text.
MatchesPattern(text) == \E k \in 1..Len(SCAM_PATTERNS) : Test(SCAM_PATTERNS[k], text)

AllowListed(p) == contractIds[p] \in VERIFIED_TOKENS
HasMetadata(p) == metadata[p] # Null
HasBalance(p) == balance[p] # Null

\* A pattern matches the contract id of position p or, when it has
\* metadata, its symbol or its reference.
ScamMatch(p) ==
  \/ MatchesPattern(contractIds[p])
  \/ /\ HasMetadata(p)
     /\ \/ MatchesPattern(Val(metadata[p]).symbol)
        \/ /\ Val(metadata[p]).reference # Null
           /\ MatchesPattern(Val(Val(metadata[p]).reference))

\* The metadata of position p carries an icon or a reference.
Carries(p) ==
  /\ HasMetadata(p)
  /\ (Val(metadata[p]).icon # Null \/ Val(metadata[p]).reference # Null)

\* C8: an allow-listed contract with metadata and balance is in the output
\* with verified = true, whatever the patterns match and whether or not it
\* has an icon or a reference.
C8_AllowListOverrides ==
  pc = "done" =>
    \A p \in Positions :
       (AllowListed(p) /\ HasMetadata(p) /\ HasBalance(p)) =>
          /\ InOutput(p)
          /\ results[Rank(p)].verified = TRUE

\* An allow-listed contract whose symbol matches a pattern and that has
\* neither icon nor reference is in the output.
C8_Witness ==
  /\ pc = "done"
  /\ \E p \in Positions :
        /\ AllowListed(p) /\ InOutput(p)
        /\ MatchesPattern(Val(metadata[p]).symbol)
        /\ ~Carries(p)

\* C9: a contract that is not allow-listed and whose symbol, id or reference
\* matches a pattern is absent from the output, icon or reference or not.
C9_ScamMatchExcluded ==
  pc = "done" =>
    \A p \in Positions :
       (~AllowListed(p) /\ ScamMatch(p)) => AbsentFromOutput(p)

\* A contract with metadata, balance and an icon is absent because only its
\* reference matches a pattern.
C9_Witness ==
  /\ pc = "done"
  /\ \E p \in Positions :
        /\ ~AllowListed(p) /\ HasMetadata(p) /\ HasBalance(p)
        /\ Val(metadata[p]).icon # Null
        /\ ~MatchesPattern(contractIds[p])
        /\ ~MatchesPattern(Val(metadata[p]).symbol)
        /\ Val(metadata[p]).reference # Null
        /\ MatchesPattern(Val(Val(metadata[p]).reference))
        /\ AbsentFromOutput(p)

\* C10 as stated: a contract that is not allow-listed and matches no pattern
\* is in the output exactly when its metadata carries an icon or a reference.
C10_AsStated ==
  pc = "done" =>
    \A p \in Positions :
       (~AllowListed(p) /\ ~ScamMatch(p)) => (InOutput(p) <=> Carries(p))

\* C10, amended: a contract that is not allow-listed, matches no pattern and
\* has a balance is in the output exactly when its metadata carries an icon
\* or a reference; one with neither is absent from the output.
C10_IconOrReferenceRequired ==
  pc = "done" =>
    \A p \in Positions :
       (~AllowListed(p) /\ ~ScamMatch(p)) =>
          /\ HasBalance(p) => (InOutput(p) <=> Carries(p))
          /\ ~Carries(p) => AbsentFromOutput(p)

\* Such a contract with a balance and only a reference is in the output.
C10_Witness ==
  /\ pc = "done"
  /\ \E p \in Positions :
        /\ ~AllowListed(p) /\ ~ScamMatch(p) /\ HasBalance(p)
        /\ Carries(p) /\ Val(metadata[p]).icon = Null /\ InOutput(p)

(***************************************************************************)
(* C20.  Formatted balance.                                                *)
(***************************************************************************)
\* The base-unit balance over 10^decimals with exactly four fractional
\* digits, rounded half-up.
HalfUp4(raw, decimals) == ToFixed4(<<DigitsValue(raw)>>, decimals)

\* C20 as stated: every token of the output carries as formatted_balance its
\* base-unit balance divided by 10^decimals, rendered with exactly four
\* fractional digits rounded half-up; an allow-listed token whose balance is
\* 1500000 with 6 decimals is output with "1.5000" and verified = TRUE.
\* Violated: getNearTokenBalance returns the JSON text of the balance without
\* parsing it, so the quotes of a JSON string make Number(balance) NaN.
C20_AsStated ==
  \A k \in 1..Len(results) :
     /\ results[k].formatted_balance =
           HalfUp4(ChainBalance[results[k].contract], results[k].decimals)
     /\ (ChainBalance[results[k].contract] = "1500000" /\ results[k].decimals = 6
           => results[k].formatted_balance = "1.5000" /\ results[k].verified)

(***************************************************************************)
(* Address validation: validateAddress of the multi-chain service          *)
(* (combined.mjs 113-160) and of the single-chain services                 *)
(* (dogecoin.mjs 29-46, litecoin.mjs 30-48, combined.mjs 585-603).         *)
(* A validator returns Null, or Some(message) for the error it throws.     *)
(***************************************************************************)
DOGE_MIN_LENGTH == 27
LTC_MIN_LENGTH == 26
MAX_LENGTH == 34

\* address.startsWith(p)
StartsWith(address, p) ==
  Len(address) >= Len(p) /\ SubSeq(address, 1, Len(p)) = p

\* prefixes.some(p => address.startsWith(p))
SomeStartsWith(prefixes, address) == \E p \in prefixes : StartsWith(address, p)

\* NETWORKS_CONFIG[network].prefixes
Prefixes ==
  [bitcoin  |-> [p2pkh |-> {"1"}, p2sh |-> {"3"}, bech32 |-> {"bc1"}],
   dogecoin |-> [p2pkh |-> {"D"}, p2sh |-> {"9", "A"}, bech32 |-> {}],
   litecoin |-> [p2pkh |-> {"L"}, p2sh |-> {"M"}, bech32 |-> {"ltc1"}]]

\* NETWORKS_CONFIG[network].name
NetworkName ==
  [bitcoin |-> "Bitcoin", dogecoin |-> "Dogecoin", litecoin |-> "Litecoin",
   near |-> "NEAR Protocol", solana |-> "Solana"]

SupportedNetworks == DOMAIN NetworkName

\* The addresses the library decoders accept (fromBase58Check, fromBech32,
\* new PublicKey): the checksum arithmetic is the library's, the model fixes
\* which sample addresses pass.
Base58CheckValid == {"1BoatSLRHtKNngkdXEeobR76b53LETtpyT", "3J98t1WpEZ73CNmQviecrnyiWrnqRhWNLy"}
Bech32Valid == {"bc1qw508d6qejxtdg4y5r3zarvary0c5xw7kv8f3t4"}
PublicKeyValid == {"4Nd1mYQzvgV8Vr3Z3nYb7Yk9Zp5cQZ5Yk1fLhJq8s7hA"}

\* The error of the inner block of validateAddress (lines 118-153).
InnerError(network, address) ==
  IF network = "bitcoin"
  THEN IF SomeStartsWith(Prefixes.bitcoin.p2pkh \cup Prefixes.bitcoin.p2sh, address)
       THEN (IF address \in Base58CheckValid THEN Null ELSE Some("Invalid checksum"))
       ELSE IF SomeStartsWith(Prefixes.bitcoin.bech32, address)
       THEN (IF address \in Bech32Valid THEN Null ELSE Some("Invalid bech32 address"))
       ELSE Some("Unsupported Bitcoin address format")
  ELSE IF network = "dogecoin"
  THEN IF ~SomeStartsWith(Prefixes.dogecoin.p2pkh, address)
          /\ ~SomeStartsWith(Prefixes.dogecoin.p2sh, address)
       THEN Some("Invalid Dogecoin address format")
       ELSE IF Len(address) < DOGE_MIN_LENGTH \/ Len(address) > MAX_LENGTH
       THEN Some("Invalid Dogecoin address length")
       ELSE Null
  ELSE IF network = "litecoin"
  THEN IF ~SomeStartsWith(Prefixes.litecoin.p2pkh, address)
          /\ ~SomeStartsWith(Prefixes.litecoin.p2sh, address)
          /\ ~SomeStartsWith(Prefixes.litecoin.bech32, address)
       THEN Some("Invalid Litecoin address format")
       ELSE IF Len(address) < LTC_MIN_LENGTH \/ Len(address) > MAX_LENGTH
       THEN Some("Invalid Litecoin address length")
       ELSE Null
  ELSE IF network = "solana"
  THEN (IF address \in PublicKeyValid THEN Null ELSE Some("Invalid Solana address format"))
  ELSE Null

\* `Invalid ${name} address: ${address} (${e.message})`
Wrapped(name, address, inner) ==
  IF inner = Null THEN Null
  ELSE Some("Invalid " \o name \o " address: " \o address \o " (" \o Val(inner) \o ")")

\* Variant: the length test of Dogecoin excludes the upper end.
validateAddressShortMax(network, address) ==
  IF network \notin SupportedNetworks THEN Some("Unsupported network: " \o network)
  ELSE IF network = "dogecoin" /\ Len(address) = MAX_LENGTH /\ InnerError(network, address) = Null
  THEN Wrapped(NetworkName[network], address, Some("Invalid Dogecoin address length"))
  ELSE Wrapped(NetworkName[network], address, InnerError(network, address))

\* validateAddress(network, address) of the multi-chain service
validateAddress(network, address) ==
  IF network \notin SupportedNetworks THEN Some("Unsupported network: " \o network)
  ELSE Wrapped(NetworkName[network], address, InnerError(network, address))

\* validateAddress(address) of the single-chain services; the tests are
\* written out again in each file and agree with the branch of the same
\* chain above, the name in the message is a literal.
validateAddressBitcoin(address) == Wrapped("Bitcoin", address, InnerError("bitcoin", address))
validateAddressDogecoin(address) ==
  Wrapped("Dogecoin", address,
     IF ~SomeStartsWith({"D"}, address) /\ ~SomeStartsWith({"9", "A"}, address)
     THEN Some("Invalid Dogecoin address format")
     ELSE IF Len(address) < DOGE_MIN_LENGTH \/ Len(address) > MAX_LENGTH
     THEN Some("Invalid Dogecoin address length")
     ELSE Null)
validateAddressLitecoin(address) ==
  Wrapped("Litecoin", address,
     IF ~SomeStartsWith({"L"}, address) /\ ~SomeStartsWith({"M"}, address)
        /\ ~SomeStartsWith({"ltc1"}, address)
     THEN Some("Invalid Litecoin address format")
     ELSE IF Len(address) < LTC_MIN_LENGTH \/ Len(address) > MAX_LENGTH
     THEN Some("Invalid Litecoin address length")
     ELSE Null)

(***************************************************************************)
(* The Solana adapter: isSolanaLikelyScamToken, getSolanaSplTokens         *)
(* (combined.mjs 294-326; the single-chain server has the same code as     *)
(* isLikelyScamToken and getSplTokens).                                    *)
(***************************************************************************)
\* NETWORKS_CONFIG.solana.VERIFIED_TOKENS
SOLANA_VERIFIED_TOKENS ==
  {"So11111111111111111111111111111111111111112",
   "Es9vMFrzaCERbb5xqW6Xh5U9k9XbV7bXv9b6o8u6Xx6u"}

\* NETWORKS_CONFIG.solana.SCAM_PATTERNS: the same three expressions as for
\* NEAR.
SOLANA_SCAM_PATTERNS == SCAM_PATTERNS

\* isSolanaLikelyScamToken(mint)
isSolanaLikelyScamToken(mint) ==
  \E k \in 1..Len(SOLANA_SCAM_PATTERNS) : Test(SOLANA_SCAM_PATTERNS[k], mint)

\* Variant: every token that passes the filters is marked verified.
SolanaTokenAllVerified(info) ==
  [mint              |-> info.mint,
   balance           |-> info.amount,
   decimals          |-> info.decimals,
   formatted_balance |-> ToFixed4(ToNumber(info.amount), info.decimals),
   verified          |-> TRUE]

\* The token record pushed for one token account (lines 316-322).
SolanaToken(info) ==
  [mint              |-> info.mint,
   balance           |-> info.amount,
   decimals          |-> info.decimals,
   formatted_balance |-> ToFixed4(ToNumber(info.amount), info.decimals),
   verified          |-> info.mint \in SOLANA_VERIFIED_TOKENS]

\* Variant: a holding of an allow-listed mint passes the NFT filter.
RECURSIVE SplTokensKeepVerifiedNft(_)
SplTokensKeepVerifiedNft(accounts) ==
  IF Len(accounts) = 0 THEN << >>
  ELSE LET info == Head(accounts)
           rest == SplTokensKeepVerifiedNft(Tail(accounts))
       IN  IF info.decimals = 0 /\ info.amount = "1" /\ info.mint \notin SOLANA_VERIFIED_TOKENS
           THEN rest
           ELSE IF isSolanaLikelyScamToken(info.mint) THEN rest
           ELSE <<SolanaToken(info)>> \o rest

\* Variant: the scam test on the mint is left out.
RECURSIVE SplTokensNoScamTest(_)
SplTokensNoScamTest(accounts) ==
  IF Len(accounts) = 0 THEN << >>
  ELSE LET info == Head(accounts)
           rest == SplTokensNoScamTest(Tail(accounts))
       IN  IF info.decimals = 0 /\ info.amount = "1" THEN rest
           ELSE <<SolanaToken(info)>> \o rest

\* The loop of getSolanaSplTokens over tokenAccounts.value (lines 305-323).
RECURSIVE SplTokens(_)
SplTokens(accounts) ==
  IF Len(accounts) = 0 THEN << >>
  ELSE LET info == Head(accounts)
           rest == SplTokens(Tail(accounts))
       IN  IF info.decimals = 0 /\ info.amount = "1" THEN rest
           ELSE IF isSolanaLikelyScamToken(info.mint) THEN rest
           ELSE <<SolanaToken(info)>> \o rest

\* The token accounts of the model: two allow-listed mints, one whose
\* string matches the first pattern and one that matches none; an NFT-shaped
\* amount, and the two shapes that differ from it in one field.
Mints ==
  SOLANA_VERIFIED_TOKENS \cup
  {"AirdropWonMint1111111111111111111111111111", "EPjFWdd5AufqSSqeM2qN1xzybapC8G4wEGGkZwyTDt1v"}

Holdings ==
  { [mint |-> m, amount |-> sh[1], decimals |-> sh[2]] :
      m \in Mints, sh \in {<<"1", 0>>, <<"1", 6>>, <<"25", 0>>} }

\* lamports.toString() of the owner's native balance.
Lamports == "5000000000"

\* The sol record of getSolanaBalances (lines 339-345).
SolRecord == [symbol |-> "SOL", balance |-> Lamports, verified |-> TRUE]

(***************************************************************************)
(* The HTTP handlers.  A request is [service, route, network, addresses]:  *)
(* service "combined" is the multi-chain app (combined.mjs 359-551),       *)
(* "bitcoin" the single-chain app of combined.mjs 554-712, "dogecoin" and  *)
(* "litecoin" the apps of dogecoin.mjs and litecoin.mjs, "solana" the      *)
(* token server; route "balance" and "verified-tokens" carry one address,  *)
(* route "balances" the addresses array of the body.                       *)
(***************************************************************************)
BATCH_LIMIT == 20

\* standardResponse(success, data, message) and the body {error} of the
\* token server, as one record shape: a field the body lacks is Null.
StandardResponse(success, data, message) ==
  [success |-> Some(success), data |-> data, message |-> Some(message), error |-> Null]
PlainBody(data) == [success |-> Null, data |-> data, message |-> Null, error |-> Null]
ErrorBody(text) == [success |-> Null, data |-> Null, message |-> Null, error |-> Some(text)]

Sent(status, body) == Some([status |-> status, body |-> body])

\* What a callback came to: it threw message, or it returned data.
Thrown(message) == [thrown |-> TRUE, message |-> message, data |-> Null]
Returned(data) == [thrown |-> FALSE, message |-> "", data |-> Some(data)]

\* The validator the handler calls.
Validate(req, address) ==
  IF req.service = "combined" THEN validateAddress(req.network, address)
  ELSE IF req.service = "bitcoin" THEN validateAddressBitcoin(address)
  ELSE IF req.service = "dogecoin" THEN validateAddressDogecoin(address)
  ELSE IF req.service = "litecoin" THEN validateAddressLitecoin(address)
  ELSE IF address \in PublicKeyValid THEN Null
  ELSE Some("Invalid Solana account address")

\* Whether the handler tests response.ok after its fetch: the single
\* endpoints do (combined.mjs 371, 388, 615), the batch endpoints of
\* dogecoin.mjs and litecoin.mjs do (dogecoin.mjs 101), the batch endpoints
\* of combined.mjs do not (468-469, 485-486, 656-657).
ChecksOk(req) ==
  req.route = "balance" \/ req.service \in {"dogecoin", "litecoin"}

\* The outcomes of a call of a balance explorer: a 2xx answer with the
\* balance, a non-2xx answer with a JSON body, a non-2xx answer whose body is
\* not JSON, no answer.
ExplorerOutcomes == {"ok", "status_json", "status_text", "network"}
\* The outcomes of a call of the Solana RPC.
RpcOutcomes == {"ok", "fail"}

\* final_balance the explorer reports for an address.
ExplorerBalance == "1234"

\* The rest of a callback after its fetch of the explorer settled.
ExplorerResult(req, address, outcome) ==
  IF outcome = "network" THEN Thrown("fetch failed")
  ELSE IF outcome # "ok" /\ ChecksOk(req) THEN Thrown("API request failed with status 429")
  ELSE IF outcome = "status_text" THEN Thrown("Unexpected token in JSON")
  ELSE IF outcome = "status_json"
  THEN IF req.network = "bitcoin"
       THEN Thrown("Cannot read properties of undefined (reading 'funded_txo_sum')")
       ELSE Returned([address |-> Null, balance |-> Null])
  ELSE Returned([address |-> Some(address), balance |-> Some(ExplorerBalance)])

\* The item of the results array for one callback of the batch.
BatchItem(address, outcome) ==
  IF outcome.thrown
  THEN [address |-> Some(address), status |-> "failed", error |-> Some(outcome.message),
        data |-> Null]
  ELSE [address |-> IF "address" \in DOMAIN Val(outcome.data)
                    THEN Val(outcome.data).address ELSE Null,
        status |-> "success", error |-> Null, data |-> outcome.data]

\* Variant: the list is sent as it was classified.
SortVerifiedFirstUnsorted(tokens) == tokens

\* tokens.sort((a, b) => b.verified - a.verified): a stable sort.
SortVerifiedFirst(tokens) ==
  SelectSeq(tokens, LAMBDA t : t.verified) \o SelectSeq(tokens, LAMBDA t : ~t.verified)

\* The body of a successful answer to a single request.
SingleBody(req, data) ==
  IF req.service = "solana"
  THEN PlainBody(Some([account |-> req.addresses[1], sol_balance |-> data.sol,
                       tokens |-> SortVerifiedFirst(data.tokens)]))
  ELSE StandardResponse(TRUE, Some(data), "")

\* The answer to a failed single request: the catch of the handler.
SingleFailure(req, message) ==
  IF req.service = "solana" THEN Sent(400, ErrorBody(message))
  ELSE Sent(400, StandardResponse(FALSE, Null, message))

\* The variables of processNearTokensWithBalances, which the handlers of
\* these requests leave alone.
callVars == <<upstream, nearTokenCache, now, contractIds, concurrency, pc, i,
              metaState, metaVia, metadata, balState, balance, items, results, windows>>

\* The tests before any address is looked at (combined.mjs 363-365, 456-460;
\* dogecoin.mjs 89-91): the error thrown to the catch of the handler, or Null.
\* Only the batch endpoint of the multi-chain app tests the length against
\* the limit.
RequestError(req) ==
  IF req.service = "combined" /\ req.network \notin SupportedNetworks
  THEN Some("Unsupported network: " \o req.network)
  ELSE IF req.route = "balances" /\ Len(req.addresses) = 0
  THEN Some("Please provide an array of addresses")
  ELSE IF req.service = "combined" /\ req.route = "balances"
          /\ Len(req.addresses) > BATCH_LIMIT
  THEN Some("Batch limit exceeded (max 20 addresses per request)")
  ELSE Null

\* A slot: the state of the callback, the number of upstream calls it has
\* issued, how the last of them was answered, and what the callback came to.
IdleSlot == [state |-> "idle", calls |-> 0, answer |-> "none", outcome |-> Null]
SettledSlot(slot, outcome) == [slot EXCEPT !.state = "settled", !.outcome = Some(outcome)]
Answered(slot, answer) == [slot EXCEPT !.answer = answer]

\* Variant: the first upstream call is issued before the address is
\* validated.
LaunchFetchFirst(req, address) ==
  [state   |-> IF req.network = "solana" THEN "balance" ELSE "fetch",
   calls   |-> 1,
   answer  |-> "none",
   outcome |-> Null]

\* A callback up to its first await: the address is validated, then the
\* first upstream call is issued.
Launch(req, address) ==
  LET invalid == Validate(req, address)
  IN  IF invalid # Null THEN SettledSlot(IdleSlot, Thrown(Val(invalid)))
      ELSE [state   |-> IF req.network = "solana" THEN "balance" ELSE "fetch",
            calls   |-> 1,
            answer  |-> "none",
            outcome |-> Null]

\* The answer to a single request whose callback came to outcome.
SingleAnswer(req, outcome) ==
  IF outcome.thrown THEN SingleFailure(req, outcome.message)
  ELSE Sent(200, SingleBody(req, Val(outcome.data)))

\* After a step that left the slots as newSlots: a single request is
\* answered in the same continuation as soon as its callback has settled, a
\* batch waits in Promise.all.
Continue(newSlots) ==
  IF request.route # "balances" /\ newSlots[1].state = "settled"
  THEN /\ response' = SingleAnswer(request, Val(newSlots[1].outcome))
       /\ hpc' = "responded"
  ELSE /\ response' = response
       /\ hpc' = "await"

\* The handler runs up to its first await.
Receive ==
  /\ hpc = "received"
  /\ request.service # "near"
  /\ LET failure == RequestError(request)
         launched == [k \in DOMAIN slots |-> Launch(request, request.addresses[k])]
     IN  IF failure # Null
         THEN /\ response' = Sent(400, StandardResponse(FALSE, Null, Val(failure)))
              /\ hpc' = "responded"
              /\ slots' = slots
         ELSE /\ slots' = launched
              /\ Continue(launched)
  /\ UNCHANGED <<request, tokenAccounts, timer>>
  /\ UNCHANGED callVars

\* Variant: a fetch that was not answered with 2xx is issued again.
FetchSettleRetrying(k, outcome) ==
  /\ hpc = "await"
  /\ slots[k].state = "fetch"
  /\ LET newSlots == [slots EXCEPT ![k] =
            IF outcome # "ok" /\ slots[k].calls < 2
            THEN [slots[k] EXCEPT !.calls = @ + 1, !.answer = outcome]
            ELSE SettledSlot(Answered(slots[k], outcome),
                             ExplorerResult(request, request.addresses[k], outcome))]
     IN  slots' = newSlots /\ Continue(newSlots)
  /\ UNCHANGED <<request, tokenAccounts, timer>>
  /\ UNCHANGED callVars

\* The fetch of the balance explorer for address k settles.
FetchSettle(k, outcome) ==
  /\ hpc = "await"
  /\ slots[k].state = "fetch"
  /\ LET newSlots == [slots EXCEPT ![k] =
            SettledSlot(Answered(slots[k], outcome),
                        ExplorerResult(request, request.addresses[k], outcome))]
     IN  slots' = newSlots /\ Continue(newSlots)
  /\ UNCHANGED <<request, tokenAccounts, timer>>
  /\ UNCHANGED callVars

\* What getSolanaBalances returns from its catch (line 349).
SolanaEmpty == [sol |-> Null, tokens |-> << >>]

\* connection.getBalance of getSolanaBalances settles (line 333): on success
\* getSolanaSplTokens issues getParsedTokenAccountsByOwner.
SolBalanceSettle(k, outcome) ==
  /\ hpc = "await"
  /\ slots[k].state = "balance"
  /\ LET newSlots == [slots EXCEPT ![k] =
            IF outcome = "ok"
            THEN [slots[k] EXCEPT !.state = "tokens", !.calls = @ + 1, !.answer = outcome]
            ELSE SettledSlot(Answered(slots[k], outcome), Returned(SolanaEmpty))]
     IN  slots' = newSlots /\ Continue(newSlots)
  /\ UNCHANGED <<request, tokenAccounts, timer>>
  /\ UNCHANGED callVars

\* getParsedTokenAccountsByOwner settles (lines 299-325, 337-347).
SolTokensSettle(k, outcome) ==
  /\ hpc = "await"
  /\ slots[k].state = "tokens"
  /\ LET newSlots == [slots EXCEPT ![k] =
            IF outcome = "ok"
            THEN SettledSlot(Answered(slots[k], outcome),
                    Returned([sol |-> Some(SolRecord), tokens |-> SplTokens(tokenAccounts)]))
            ELSE SettledSlot(Answered(slots[k], outcome), Returned(SolanaEmpty))]
     IN  slots' = newSlots /\ Continue(newSlots)
  /\ UNCHANGED <<request, tokenAccounts, timer>>
  /\ UNCHANGED callVars

\* Variant: the items of the answer are the succeeded ones first, then the
\* failed ones.
BatchRespondFailuresLast ==
  /\ hpc = "await"
  /\ request.route = "balances"
  /\ \A k \in DOMAIN slots : slots[k].state = "settled"
  /\ LET all == [k \in DOMAIN slots |-> BatchItem(request.addresses[k], Val(slots[k].outcome))]
     IN  response' = Sent(200, StandardResponse(TRUE,
            Some(SelectSeq(all, LAMBDA it : it.status = "success") \o
                 SelectSeq(all, LAMBDA it : it.status = "failed")),
            ""))
  /\ hpc' = "responded"
  /\ UNCHANGED <<request, slots, tokenAccounts, timer>>
  /\ UNCHANGED callVars

\* await Promise.all(...) of a batch resumes: res.json(standardResponse(true,
\* results)), the items in the order of the addresses.
BatchRespond ==
  /\ hpc = "await"
  /\ request.route = "balances"
  /\ \A k \in DOMAIN slots : slots[k].state = "settled"
  /\ response' = Sent(200, StandardResponse(TRUE,
        Some([k \in DOMAIN slots |-> BatchItem(request.addresses[k], Val(slots[k].outcome))]),
        ""))
  /\ hpc' = "responded"
  /\ UNCHANGED <<request, slots, tokenAccounts, timer>>
  /\ UNCHANGED callVars

(***************************************************************************)
(* Requests of the model and the specifications of the handlers.           *)
(***************************************************************************)
MaxOverLen == 1      \* probe addresses run up to MAX_LENGTH + MaxOverLen
MaxAccounts == 2     \* most token accounts of the owner
MaxBatch == 2        \* longest addresses array of SpecBatch
MaxOverLimit == 1    \* longest addresses array of SpecLimit is BATCH_LIMIT + MaxOverLimit
MaxIndexN == 2       \* longest list of ids the index serves

RECURSIVE Fill(_)
Fill(n) == IF n <= 0 THEN "" ELSE "x" \o Fill(n - 1)

\* An address of length n that starts with prefix.
MakeAddress(prefix, n) == prefix \o Fill(n - Len(prefix))

\* Every prefix of the two prefix-and-length chains, a prefix of neither, and
\* the lower-case form of one (startsWith is case sensitive); every length
\* from below the smaller minimum to above the maximum.
ProbePrefixes == {"D", "9", "A", "L", "M", "ltc1", "X", "d"}
ProbeLengths == (LTC_MIN_LENGTH - 1) .. (MAX_LENGTH + MaxOverLen)
ProbeAddresses == { MakeAddress(p, n) : p \in ProbePrefixes, n \in ProbeLengths }

\* The networks of the requests: four of the five configured ones and one
\* that is not configured.  A request for network "near" runs
\* processNearTokensWithBalances over the allow-list; it is not among the
\* requests of these specifications.
Networks == {"bitcoin", "dogecoin", "litecoin", "solana", "ethereum"}

AddressesOf(network) ==
  IF network = "bitcoin"
  THEN Base58CheckValid \cup Bech32Valid \cup {"1Bad", "bc1bad", "xyz"}
  ELSE IF network \in {"dogecoin", "litecoin"} THEN ProbeAddresses
  ELSE PublicKeyValid \cup {"not-a-key"}

\* One address the validator of the network accepts and one it rejects.
BatchAddressesOf(network) ==
  IF network = "bitcoin" THEN {"1BoatSLRHtKNngkdXEeobR76b53LETtpyT", "1Bad"}
  ELSE IF network = "dogecoin" THEN {MakeAddress("D", MAX_LENGTH), MakeAddress("X", MAX_LENGTH)}
  ELSE IF network = "litecoin" THEN {MakeAddress("ltc1", MAX_LENGTH), MakeAddress("L", MAX_LENGTH + 1)}
  ELSE PublicKeyValid \cup {"not-a-key"}

ServiceNetworks(service) == IF service = "combined" THEN Networks ELSE {service}

Request(service, route, network, addresses) ==
  [service |-> service, route |-> route, network |-> network, addresses |-> addresses]

SingleRequests ==
  { Request(s, IF s = "solana" THEN "verified-tokens" ELSE "balance", n, <<a>>) :
      s \in {"combined", "bitcoin", "dogecoin", "litecoin", "solana"},
      n \in Networks, a \in ProbeAddresses \cup AddressesOf("bitcoin") \cup AddressesOf("solana") }

\* No call of processNearTokensWithBalances is running.
InitCallIdle ==
  /\ upstream = MixedWorld
  /\ nearTokenCache = [id \in Ids |-> Null]
  /\ now = 0
  /\ contractIds = << >>
  /\ concurrency = DefaultConcurrency
  /\ pc = "idle"
  /\ i = 0
  /\ metaState = << >>
  /\ metaVia = << >>
  /\ metadata = << >>
  /\ balState = << >>
  /\ balance = << >>
  /\ items = << >>
  /\ results = << >>
  /\ windows = << >>

\* The request req has arrived; the owner's token accounts are accounts.
InitRequest(req, accounts) ==
  /\ InitCallIdle
  /\ request = req
  /\ hpc = "received"
  /\ slots = [k \in 1..Len(req.addresses) |-> IdleSlot]
  /\ response = << >>
  /\ tokenAccounts = accounts
  /\ timer = NoTimer

\* One single request: any service, any network it serves, any address of
\* that network; for Solana any short list of token accounts.
InitSingle ==
  \E req \in SingleRequests :
     /\ req.network \in ServiceNetworks(req.service)
     /\ req.addresses[1] \in AddressesOf(req.network)
     /\ \E accounts \in SeqsUpTo(Holdings, MaxAccounts) :
           /\ (req.network # "solana" => accounts = << >>)
           /\ InitRequest(req, accounts)

\* A token-account list with one holding of each kind, for the batches.
SampleAccounts ==
  << [mint |-> "So11111111111111111111111111111111111111112", amount |-> "25", decimals |-> 0],
     [mint |-> "AirdropWonMint1111111111111111111111111111", amount |-> "1", decimals |-> 6] >>

\* One batch request with a short addresses array, the Solana RPC serving
\* accounts for every owner.
InitBatchWith(accounts) ==
  \E s \in {"combined", "bitcoin", "dogecoin", "litecoin"} :
    \E n \in ServiceNetworks(s) :
      \E as \in SeqsUpTo(BatchAddressesOf(n), MaxBatch) :
         InitRequest(Request(s, "balances", n, as), accounts)

InitBatch == InitBatchWith(SampleAccounts)

\* One batch request with an addresses array around the limit, every
\* address valid.
InitLimit ==
  \E s \in {"combined", "bitcoin", "dogecoin", "litecoin"} :
    \E n \in ServiceNetworks(s) \ {"solana", "ethereum"} :
      \E len \in (BATCH_LIMIT - 1) .. (BATCH_LIMIT + MaxOverLimit) :
         InitRequest(Request(s, "balances", n,
                             [k \in 1..len |-> CHOOSE a \in BatchAddressesOf(n) : Validate(Request(s, "balances", n, << >>), a) = Null]),
                     << >>)

NextHttp ==
  \/ Receive
  \/ \E k \in DOMAIN slots, outcome \in ExplorerOutcomes : FetchSettle(k, outcome)
  \/ \E k \in DOMAIN slots, outcome \in RpcOutcomes : SolBalanceSettle(k, outcome)
  \/ \E k \in DOMAIN slots, outcome \in RpcOutcomes : SolTokensSettle(k, outcome)

NextBatch == NextHttp \/ BatchRespond

\* The fetches of a long batch settle in the order of the addresses, each
\* with a 2xx answer.
LimitFetchSettle ==
  /\ \E k \in DOMAIN slots : slots[k].state = "fetch"
  /\ FetchSettle(CHOOSE k \in DOMAIN slots :
                    slots[k].state = "fetch" /\ \A j \in 1..(k - 1) : slots[j].state # "fetch",
                 "ok")

NextLimit == Receive \/ LimitFetchSettle \/ BatchRespond

SpecSingle == InitSingle /\ [][NextHttp]_vars
SpecBatch == InitBatch /\ [][NextBatch]_vars
SpecLimit == InitLimit /\ [][NextLimit]_vars

\* One request, single or batch.
InitRequests == InitSingle \/ InitBatch
SpecRequests == InitRequests /\ [][NextBatch]_vars

(***************************************************************************)
(* GET /verified-tokens/:account of the NEAR token server (part_000 lines  *)
(* 283-306): the index lookup under a timeout, then                        *)
(* processTokensWithBalances over the ids the index served.                *)
(***************************************************************************)
INDEX_TIMEOUT == 10000

NearAccount == "alice.near"

\* How the lookup of the index ends: an array of ids; fetch rejects; the body
\* is not JSON; the body is JSON but not an array (the handler does not test
\* response.ok).
IndexOutcomes == {"ok", "network", "badjson", "notarray"}

IndexError(outcome) ==
  IF outcome = "network" THEN "fetch failed"
  ELSE "Unexpected token < in JSON at position 0"

\* The timeout is armed and its time has come.
TimerDue == timer.state = "armed" /\ ~timer.fired /\ now >= timer.deadline

\* finally { if (timeout) clearTimeout(timeout); }
Cleared(t) == [t EXCEPT !.state = "cleared"]

NearBody(tokens) ==
  PlainBody(Some([account |-> request.addresses[1], tokens |-> tokens]))

\* The handler up to its first await: the timeout is armed and the index is
\* asked for the likely tokens of the account.
NearReceive ==
  /\ hpc = "received"
  /\ request.service = "near"
  /\ timer' = [state |-> "armed", deadline |-> now + INDEX_TIMEOUT, fired |-> FALSE]
  /\ hpc' = "index"
  /\ UNCHANGED <<request, slots, response, tokenAccounts>>
  /\ UNCHANGED callVars

\* After a step of processTokensWithBalances: when it has returned, the
\* handler answers with the tokens sorted and clears the timeout.
NearContinue ==
  IF pc' = "done"
  THEN /\ response' = Sent(200, NearBody(SortVerifiedFirst(results')))
       /\ hpc' = "responded"
       /\ timer' = Cleared(timer)
  ELSE /\ response' = response
       /\ hpc' = "aggregate"
       /\ timer' = timer

\* The lookup of the index settles before the timeout: with an array the
\* handler calls processTokensWithBalances, which runs up to its first await;
\* over a body that is not an array the loop of that function does not run;
\* a rejection goes to the catch.
IndexSettle(outcome) ==
  /\ hpc = "index"
  /\ ~TimerDue
  /\ CASE outcome = "ok" ->
            /\ CallStart
            /\ windows' = windows
            /\ NearContinue
       [] outcome = "notarray" ->
            /\ pc' = "done"
            /\ results' = << >>
            /\ UNCHANGED <<upstream, nearTokenCache, now, contractIds, concurrency, i,
                           metaState, metaVia, metadata, balState, balance, items, windows>>
            /\ NearContinue
       [] OTHER ->
            /\ response' = Sent(400, ErrorBody(IndexError(outcome)))
            /\ hpc' = "responded"
            /\ timer' = Cleared(timer)
            /\ UNCHANGED callVars
  /\ UNCHANGED <<request, slots, tokenAccounts>>

\* Variant: the callback of the timeout aborts nothing.
TimerFiresNoAbort ==
  /\ TimerDue
  /\ timer' = [timer EXCEPT !.fired = TRUE]
  /\ UNCHANGED <<request, hpc, slots, response, tokenAccounts>>
  /\ UNCHANGED callVars

\* Variant: the callback of the timeout answers the request itself, whatever
\* the handler is doing.
TimerFiresAnswering ==
  /\ TimerDue
  /\ response' = Sent(400, ErrorBody("This operation was aborted"))
  /\ timer' = [timer EXCEPT !.fired = TRUE]
  /\ UNCHANGED <<request, hpc, slots, tokenAccounts>>
  /\ UNCHANGED callVars

\* The callback of the timeout runs: controller.abort().  While the lookup of
\* the index is pending its fetch rejects, the catch answers and the finally
\* clears the timeout; later the signal is used by nothing.
TimerFires ==
  /\ TimerDue
  /\ IF hpc = "index"
     THEN /\ response' = Sent(400, ErrorBody("This operation was aborted"))
          /\ hpc' = "responded"
          /\ timer' = Cleared([timer EXCEPT !.fired = TRUE])
     ELSE /\ timer' = [timer EXCEPT !.fired = TRUE]
          /\ UNCHANGED <<hpc, response>>
  /\ UNCHANGED <<request, slots, tokenAccounts>>
  /\ UNCHANGED callVars

\* await Promise.all(batchPromises) of processTokensWithBalances resumes.
NearJoin ==
  /\ hpc = "aggregate"
  /\ JoinSteps
  /\ windows' = windows
  /\ NearContinue
  /\ UNCHANGED <<request, slots, tokenAccounts>>

\* Time passes while the request is served; a timeout that is due runs
\* first.
NearTick ==
  /\ hpc \in {"index", "aggregate"}
  /\ ~TimerDue
  /\ Tick

\* One request for the tokens of an account, the index holding a short list
\* of ids for it.
InitNearWith(idSet) ==
  \E ids \in SeqsUpTo(idSet, MaxIndexN) :
     /\ InitCallVars(ids, DefaultConcurrency, MixedWorld)
     /\ request = Request("near", "verified-tokens", "near", <<NearAccount>>)
     /\ hpc = "received"
     /\ slots = <<IdleSlot>>
     /\ response = << >>
     /\ tokenAccounts = << >>
     /\ timer = NoTimer

InitNear == InitNearWith(CallIds)

NextNear ==
  \/ NearReceive
  \/ \E outcome \in IndexOutcomes : IndexSettle(outcome)
  \/ TimerFires
  \/ \E p \in DOMAIN metaState, outcome \in MetaOutcomes : MetaSettle(p, outcome)
  \/ \E p \in DOMAIN balState, outcome \in BalOutcomes : BalSettle(p, outcome)
  \/ NearJoin
  \/ NearTick

SpecNear == InitNear /\ [][NextNear]_vars

\* Any request, when every upstream call settles and every continuation that
\* can run does run; the owners hold no token account and the index lists
\* one contract.
InitServe ==
  \/ InitSingle /\ tokenAccounts = << >>
  \/ InitBatchWith(<< >>)
  \/ InitNearWith({"wrap.near"})
NextServe == NextBatch \/ NextNear
SpecServe == InitServe /\ [][NextServe]_vars /\ WF_vars(NextServe)

\* Either token endpoint at work, or another single request.
InitTokens == InitNear \/ InitSingle
NextTokens == NextNear \/ NextHttp
SpecTokens == InitTokens /\ [][NextTokens]_vars

\* Either adapter at work: one call of processNearTokensWithBalances, or one
\* single request.
InitAdapters == Init \/ InitSingle
NextAdapters == Next \/ NextHttp
SpecAdapters == InitAdapters /\ [][NextAdapters]_vars

(***************************************************************************)
(* C11 - C13.  The Solana adapter; the verified flag of both adapters.     *)
(***************************************************************************)
\* The callback of address k has returned from getSolanaBalances.
SolanaReturned(k) ==
  /\ request.network = "solana"
  /\ slots[k].state = "settled"
  /\ ~Val(slots[k].outcome).thrown

\* The token enumeration of address k succeeded.
SolanaEnumerated(k) == SolanaReturned(k) /\ Val(Val(slots[k].outcome).data).sol # Null

TokensOf(k) == Val(Val(slots[k].outcome).data).tokens

NftShaped(info) == info.decimals = 0 /\ info.amount = "1"

\* C11: no token list the Solana adapter returns holds an entry with
\* decimals = 0 and raw amount "1", whatever its mint: not in the value of
\* getSolanaBalances and not in the body sent.
C11_NftShapedNeverReturned ==
  /\ \A k \in DOMAIN slots :
        SolanaReturned(k) =>
           \A j \in 1..Len(TokensOf(k)) :
              ~(TokensOf(k)[j].decimals = 0 /\ TokensOf(k)[j].balance = "1")
  /\ (request.service = "solana" /\ response # Null /\ Val(response).status = 200) =>
        \A j \in 1..Len(Val(Val(response).body.data).tokens) :
           LET t == Val(Val(response).body.data).tokens[j]
           IN  ~(t.decimals = 0 /\ t.balance = "1")

\* The owner holds an NFT-shaped entry of an allow-listed mint next to an
\* entry that is returned, and the enumeration has been answered.
C11_Witness ==
  /\ request.service = "solana" /\ response # Null
  /\ SolanaEnumerated(1)
  /\ \E j \in 1..Len(tokenAccounts) :
        NftShaped(tokenAccounts[j]) /\ tokenAccounts[j].mint \in SOLANA_VERIFIED_TOKENS
  /\ Len(TokensOf(1)) = 1

\* The holdings the two-step path on the mint includes.
Included(info) ==
  /\ ~NftShaped(info)
  /\ \/ info.mint \in SOLANA_VERIFIED_TOKENS
     \/ ~MatchesPattern(info.mint)

Pairs(list, mintField, amountField) ==
  [j \in 1..Len(list) |-> <<list[j][mintField], list[j][amountField]>>]

C13_VerifiedIffAllowListed ==
  /\ \A k \in 1..Len(results) :
        results[k].verified <=> results[k].contract \in VERIFIED_TOKENS
  /\ \A k \in DOMAIN slots :
        SolanaReturned(k) =>
           \A j \in 1..Len(TokensOf(k)) :
              TokensOf(k)[j].verified <=> TokensOf(k)[j].mint \in SOLANA_VERIFIED_TOKENS

\* The Solana adapter has returned a verified and an unverified record.
C13_Witness ==
  /\ SolanaEnumerated(1)
  /\ \E k, j \in 1..Len(TokensOf(1)) : TokensOf(1)[k].verified /\ ~TokensOf(1)[j].verified

(***************************************************************************)
(* C14 - C17.  Errors of the HTTP handlers.                                *)
(***************************************************************************)
Responded == response # Null
Status == Val(response).status
Body == Val(response).body

\* The envelope of a failure: HTTP 400, success = false and a message.
FailureEnvelope ==
  /\ Status = 400
  /\ Body.success = Some(FALSE)
  /\ Body.message # Null /\ Val(Body.message) # ""

OverLimit == request.route = "balances" /\ Len(request.addresses) > BATCH_LIMIT

\* C14 as stated: on every service with a batch endpoint a request with more
\* than 20 addresses fails as a whole: no address is validated, no upstream
\* call is issued, and the one answer is HTTP 400 with success = false and
\* no per-item result.
\* Violated: only the batch endpoint of the multi-chain app tests the length.
C14_AsStated ==
  OverLimit =>
     /\ \A k \in DOMAIN slots : slots[k].state = "idle" /\ slots[k].calls = 0
     /\ Responded => FailureEnvelope /\ Body.data = Null

\* The batch passed the tests made before any address is looked at.
BatchAccepted ==
  /\ request.route = "balances"
  /\ Len(request.addresses) \in 1..BATCH_LIMIT
  /\ (request.service = "combined" => request.network \in SupportedNetworks)

\* Address k of the request fails: its validator rejects it, or an upstream
\* call made for it was answered with a non-success status or not at all.
Rejected(k) == Validate(request, request.addresses[k]) # Null
UpstreamFailed(k) == slots[k].answer \notin {"none", "ok"}
Failing(k) == Rejected(k) \/ UpstreamFailed(k)

ItemsSent == Val(Body.data)

\* C15 as stated: a batch within the limit is answered with HTTP 200 and
\* success = true, one item per address, each with status 'success' or
\* 'failed'; the item of a failing address has status 'failed' and an error
\* message, and the item of any other address is a success that does not
\* depend on the failing ones.
\* Violated: the batch endpoint of the multi-chain app does not test
\* response.ok, and getSolanaBalances swallows the failure of its calls.
C15_AsStated ==
  (BatchAccepted /\ Responded) =>
     /\ Status = 200 /\ Body.success = Some(TRUE)
     /\ Len(ItemsSent) = Len(request.addresses)
     /\ \A k \in 1..Len(ItemsSent) :
           /\ ItemsSent[k].status \in {"success", "failed"}
           /\ Failing(k) => ItemsSent[k].status = "failed" /\ ItemsSent[k].error # Null
           /\ ~Failing(k) => ItemsSent[k].status = "success" /\ ItemsSent[k].error = Null

\* C16 as stated: every failure response of a single-request endpoint, the
\* /verified-tokens endpoints included, has HTTP status 400 and a body with
\* success = false and a message.
\* Violated: the token server answers an invalid address with {error}.
C16_AsStated ==
  (request.route # "balances" /\ Responded /\ Status # 200) => FailureEnvelope

\* C17 as stated: a request one of whose upstream calls was answered with a
\* non-success status or not at all is answered with an error carrying a
\* message, never with a success.
\* Violated: getSolanaBalances returns {sol: null, tokens: []} from its
\* catch and the handler sends it as a success.
C17_AsStated ==
  (request.route # "balances" /\ Responded /\ UpstreamFailed(1)) =>
     /\ Status # 200
     /\ Body.success # Some(TRUE)
     /\ \/ Body.message # Null /\ Val(Body.message) # ""
        \/ Body.error # Null

(***************************************************************************)
(* C18.  No retry.                                                         *)
(***************************************************************************)
\* One call of processNearTokensWithBalances, or one batch request.
InitNoRetry == Init \/ InitBatch
NextNoRetry == Next \/ NextBatch
SpecNoRetry == InitNoRetry /\ [][NextNoRetry]_vars

\* A fetch is issued in this step for position p.
Issued(state, p) == state[p] # "pending" /\ state'[p] = "pending"

\* In this step no fetch is issued for a position that had one before, and
\* a fetch that has settled, failed or not, stays settled.
NoReissue(state) ==
  \A p \in DOMAIN state :
     /\ Issued(state, p) => state[p] = "idle"
     /\ state[p] = "settled" => state'[p] = "settled"

\* C18: within one aggregate call every position gets its balance fetch
\* exactly once and its metadata fetch at most once (none when the cache
\* answers), and a fetch that failed is not issued again; within one balance
\* request every address gets at most one call of the balance explorer.
C18_NoRetry ==
  /\ [][NoReissue(balState) /\ NoReissue(metaState)]_vars
  /\ [](pc = "done" => \A p \in DOMAIN balState : balState[p] = "settled")
  /\ [](\A p \in DOMAIN metaVia : metaVia[p] = "cache" => metadata[p] # Null)
  /\ [](\A k \in DOMAIN slots :
          /\ slots[k].calls <= (IF request.network = "solana" THEN 2 ELSE 1)
          /\ UpstreamFailed(k) => slots[k].state = "settled")
  /\ [][\A k \in DOMAIN slots : slots'[k].calls >= slots[k].calls /\
          (slots[k].state = "settled" => slots'[k] = slots[k])]_vars

\* The call has returned after a metadata fetch and a balance fetch failed.
C18_Witness ==
  /\ pc = "done"
  /\ \E p, q \in DOMAIN balState :
        /\ metaVia[p] = "upstream" /\ metadata[p] = Null
        /\ balance[q] = Null
  /\ Len(results) > 0

(***************************************************************************)
(* C19.  Address validation of the prefix-and-length chains.               *)
(***************************************************************************)
TheAddress == request.addresses[1]
FirstIs(chars) == Len(TheAddress) >= 1 /\ SubSeq(TheAddress, 1, 1) \in chars

\* The rule of the chain, written out: a prefix of the chain and a length
\* in the inclusive range.
PrefixRule ==
  IF request.network = "dogecoin" THEN FirstIs({"D", "9", "A"})
  ELSE FirstIs({"L", "M"}) \/ (Len(TheAddress) >= 4 /\ SubSeq(TheAddress, 1, 4) = "ltc1")
LengthRule ==
  IF request.network = "dogecoin" THEN Len(TheAddress) \in 27..34
  ELSE Len(TheAddress) \in 26..34

\* C19: a Dogecoin or Litecoin address is accepted (its explorer call is
\* issued) exactly when it starts with a prefix of the chain and its length
\* is in the inclusive range; otherwise the request is answered with an
\* error that names the format when the prefix fails and the length when
\* only the length fails; the validator of the multi-chain app and the
\* validator of the single-chain app give the same result on the address.
C19_PrefixAndLength ==
  (request.route = "balance" /\ request.network \in {"dogecoin", "litecoin"}) =>
     /\ validateAddress("dogecoin", TheAddress) = validateAddressDogecoin(TheAddress)
     /\ validateAddress("litecoin", TheAddress) = validateAddressLitecoin(TheAddress)
     /\ hpc # "received" =>
          /\ slots[1].calls = 1 <=> (PrefixRule /\ LengthRule)
          /\ ~(PrefixRule /\ LengthRule) =>
                /\ Responded /\ Status = 400 /\ Body.success = Some(FALSE)
                /\ Contains(Val(Body.message), TheAddress)
                /\ Contains(Val(Body.message), IF PrefixRule THEN "length" ELSE "format")
                /\ ~Contains(Val(Body.message), IF PrefixRule THEN "format" ELSE "length")

\* The multi-chain app has rejected, for its length alone, a Dogecoin address
\* of a length that Litecoin accepts.
C19_Witness ==
  /\ request.service = "combined" /\ request.network = "dogecoin"
  /\ Len(TheAddress) = 26 /\ PrefixRule
  /\ Responded /\ Status = 400
  /\ Contains(Val(Body.message), "Invalid Dogecoin address length")

(***************************************************************************)
(* C23 - C25, C28.  The metadata cache under overlapping lookups.          *)
(***************************************************************************)
SameId(p, q) == contractIds[p] = contractIds[q]

\* The fetch of position p completes with metadata in this step.
FetchSucceeds(p) ==
  metaState[p] = "pending" /\ metaState'[p] = "settled" /\ metadata'[p] # Null

\* The lookups of p and q overlap: both are running or were launched in the
\* same window.
Overlapping(p, q) == p # q /\ Launched(p) /\ Launched(q) /\ WindowOf(p) = WindowOf(q)

\* C23: two overlapping lookups of one id that found no valid entry both go
\* upstream, and every fetch that completes with metadata writes the entry
\* with its own value and the time of its completion, so that after both
\* the entry is the one of the fetch that completed last.
C23_NoSingleFlight ==
  /\ [](\A p, q \in Positions :
          (Overlapping(p, q) /\ SameId(p, q) /\ metaVia[p] = "upstream")
             => metaVia[q] = "upstream")
  /\ [][\A p \in Positions : FetchSucceeds(p) =>
          nearTokenCache'[contractIds[p]] =
             Some([data |-> Val(metadata'[p]), timestamp |-> now])]_vars

\* Two lookups of one id in one window both fetched and both succeeded; the
\* entry carries a later time than the start of the call, the time at which
\* the second fetch completed.
C23_Witness ==
  \E p, q \in Positions :
     /\ p < q /\ Overlapping(p, q) /\ SameId(p, q)
     /\ metaVia[p] = "upstream" /\ metaVia[q] = "upstream"
     /\ metadata[p] # Null /\ metadata[q] # Null
     /\ pc = "await" /\ i = 0
     /\ Val(nearTokenCache[contractIds[p]]).timestamp = now /\ now > 0

FieldsOfMetadata == {"symbol", "decimals", "icon", "reference"}

\* C24: every entry of the cache is {data, timestamp} with the four fields
\* of one successful fetch for its own id: a lookup of that id went
\* upstream and resolved to exactly this data, which is what the chain
\* serves for the id.
C24_EntryIntegrity ==
  \A id \in DOMAIN nearTokenCache :
     nearTokenCache[id] # Null =>
        LET entry == Val(nearTokenCache[id])
        IN  /\ DOMAIN entry = {"data", "timestamp"}
            /\ DOMAIN entry.data = FieldsOfMetadata
            /\ entry.data.symbol # ""
            /\ entry.timestamp \in 0..now
            /\ Some(entry.data) = ParseMetadata(upstream[id])
            /\ \E p \in Positions :
                  /\ contractIds[p] = id /\ metaVia[p] = "upstream"
                  /\ metadata[p] = Some(entry.data)

\* Two ids with different metadata have an entry each, while a failed lookup
\* that overlapped the successful one of its id has stored nothing.
C24_Witness ==
  /\ nearTokenCache["wrap.near"] # Null /\ nearTokenCache["tok.near"] # Null
  /\ Val(nearTokenCache["wrap.near"]).data # Val(nearTokenCache["tok.near"]).data
  /\ \E p, q, r \in Positions :
        /\ ~SameId(p, q) /\ Overlapping(p, r) /\ SameId(p, r)
        /\ metadata[p] # Null /\ metadata[q] # Null
        /\ metaState[r] = "settled" /\ metadata[r] = Null

\* C25: an id that has an entry has one in every later state, and the time
\* stored for an id never decreases.
C25_NeverDeletes ==
  [][\A id \in DOMAIN nearTokenCache :
        nearTokenCache[id] # Null =>
           /\ nearTokenCache'[id] # Null
           /\ Val(nearTokenCache'[id]).timestamp >= Val(nearTokenCache[id]).timestamp]_vars

\* An entry outlived its TTL, a refetch failed and left it, and a later
\* refetch overwrote it.
C25_Witness ==
  \E p, q, r \in Positions :
     /\ p < q /\ q < r
     /\ metaVia[p] = "upstream" /\ metadata[p] # Null
     /\ metaVia[q] = "upstream" /\ metaState[q] = "settled" /\ metadata[q] = Null
     /\ metaVia[r] = "upstream" /\ metadata[r] # Null
     /\ Val(nearTokenCache[contractIds[r]]).timestamp >= CACHE_TTL

\* C28: a lookup of an id all of whose earlier lookups failed goes upstream,
\* whatever the time since the failed attempt.
C28_NoNegativeCaching ==
  \A q \in Positions :
     (metaVia[q] # "none" /\
      \A p \in 1..(q - 1) : SameId(p, q) => (metaState[p] = "settled" /\ metadata[p] = Null))
        => metaVia[q] = "upstream"

\* A lookup failed and the next lookup of the id, in the next window at the
\* same instant, has gone upstream.
C28_Witness ==
  \E p, q \in Positions :
     /\ p < q /\ SameId(p, q) /\ WindowOf(p) # WindowOf(q)
     /\ metaVia[p] = "upstream" /\ metaState[p] = "settled" /\ metadata[p] = Null
     /\ metaVia[q] = "upstream"
     /\ now = 0

(***************************************************************************)
(* C27.  Termination of processNearTokensWithBalances.                     *)
(***************************************************************************)
CallReturned == pc = "done"

\* An iteration of the loop ends in this step: the window has settled and
\* the continuation after await Promise.all runs.
IterationEnds == pc = "await" /\ WindowSettled

\* C27 as stated: for every window size >= 0 the call returns, every
\* iteration ending with a start index that is greater than before.
C27_AsStated ==
  /\ <>CallReturned
  /\ [](IterationEnds => NextStart(i, concurrency) > i)

\* C27: for every window size >= 1 the call returns when every fetch
\* settles; every iteration moves the start index of the window up, and
\* the call returns as soon as the index has reached the length of the
\* list.
C27_Terminates ==
  /\ (concurrency >= 1) => <>CallReturned
  /\ [][(concurrency >= 1 /\ IterationEnds) =>
          /\ i' > i
          /\ (pc' = "done") = (i' >= Len(contractIds))]_vars

\* The call has returned after more than one window.
C27_Witness ==
  /\ CallReturned
  /\ concurrency >= 1
  /\ Len(contractIds) > concurrency
  /\ i >= Len(contractIds)

(***************************************************************************)
(* C26.  Validation comes before any upstream call.                        *)
(***************************************************************************)
BalanceRequest ==
  request.route \in {"balance", "balances"} /\ RequestError(request) = Null

\* C26: for an address the validator rejects no upstream call is ever
\* issued; a single balance request is answered in the same continuation
\* with HTTP 400 and the validator's message, and the answer to a batch has
\* a 'failed' item with that message for the address.
C26_ValidateFirst ==
  \A k \in DOMAIN slots :
     (BalanceRequest /\ Rejected(k)) =>
        LET text == Validate(request, request.addresses[k])
        IN  /\ slots[k].calls = 0
            /\ slots[k].answer = "none"
            /\ (request.route = "balance" /\ hpc # "received") =>
                  /\ Responded
                  /\ Status = 400
                  /\ Body.message = text
            /\ (request.route = "balances" /\ Responded) =>
                  /\ ItemsSent[k].status = "failed"
                  /\ ItemsSent[k].error = text
                  /\ ItemsSent[k].data = Null

\* A batch is answered: one address was rejected without a call, for
\* another one the explorer was called.
C26_Witness ==
  /\ BalanceRequest /\ request.route = "balances" /\ Responded
  /\ \E j, k \in DOMAIN slots :
        /\ Rejected(j) /\ slots[j].calls = 0 /\ ItemsSent[j].status = "failed"
        /\ ~Rejected(k) /\ slots[k].calls = 1

(***************************************************************************)
(* C29.  The items of a batch answer.                                      *)
(***************************************************************************)
\* C29: the answer to an accepted batch has one item per address of the
\* request, item k being what the callback of address k came to, whatever
\* the order in which the callbacks settled and whichever of them failed.
C29_ItemPerAddressInOrder ==
  (request.route = "balances" /\ Responded /\ Status = 200) =>
     /\ Len(ItemsSent) = Len(request.addresses)
     /\ \A k \in DOMAIN request.addresses :
           LET outcome == Val(slots[k].outcome)
               item == ItemsSent[k]
           IN  IF outcome.thrown
               THEN /\ item.status = "failed"
                    /\ item.address = Some(request.addresses[k])
                    /\ item.error = Some(outcome.message)
               ELSE /\ item.status = "success"
                    /\ item.data = outcome.data

\* An answered batch of two different addresses whose first item failed
\* and whose second item succeeded.
C29_Witness ==
  /\ request.route = "balances" /\ Responded /\ Status = 200
  /\ Len(request.addresses) = 2
  /\ request.addresses[1] # request.addresses[2]
  /\ ItemsSent[1].status = "failed"
  /\ ItemsSent[2].status = "success"

(***************************************************************************)
(* C21.  The order of the tokens of GET /verified-tokens.                  *)
(***************************************************************************)
TokensAnswered == request.route = "verified-tokens" /\ Responded /\ Status = 200

\* The tokens of the answer, and the list the classification produced.
TokensSent == Val(Body.data).tokens
TokensClassified ==
  IF request.service = "near" THEN results
  ELSE Val(Val(slots[1].outcome).data).tokens

IsVerified(token) == token.verified
NotVerified(token) == ~token.verified

\* C21: in the answer of either token endpoint no unverified token comes
\* before a verified one, the list has the tokens of the classified list,
\* and the verified ones among themselves, like the unverified ones, are in
\* the order they had in the classified list.
C21_VerifiedFirstStable ==
  TokensAnswered =>
     /\ \A a, b \in DOMAIN TokensSent :
           (a < b /\ TokensSent[b].verified) => TokensSent[a].verified
     /\ Len(TokensSent) = Len(TokensClassified)
     /\ SelectSeq(TokensSent, IsVerified) = SelectSeq(TokensClassified, IsVerified)
     /\ SelectSeq(TokensSent, NotVerified) = SelectSeq(TokensClassified, NotVerified)

\* The NEAR endpoint has answered; the classified list had an unverified
\* token in front of a verified one.
C21_Witness ==
  /\ TokensAnswered /\ request.service = "near"
  /\ Len(TokensClassified) = 2
  /\ ~TokensClassified[1].verified /\ TokensClassified[2].verified
  /\ TokensSent[1] = TokensClassified[2] /\ TokensSent[2] = TokensClassified[1]

(***************************************************************************)
(* C22.  The timeout of the index lookup of the NEAR token handler.        *)
(***************************************************************************)
NoFetchIssued ==
  \A p \in Positions : metaVia[p] = "none" /\ metaState[p] = "idle" /\ balState[p] = "idle"

IndexOverdue == hpc = "index" /\ now >= timer.deadline

\* C22: when the lookup of the index is still pending at the deadline, 10 s
\* after the handler armed the timeout, the next step of the handler is the
\* abort: the request is answered with an error and no metadata or balance
\* fetch is issued, then or later; and whichever way the handler comes to
\* its answer the timeout is cleared, while it is armed as long as the
\* request is being served.
C22_IndexTimeout ==
  /\ [][IndexOverdue =>
          /\ response' # Null
          /\ Val(response').status = 400
          /\ Val(response').body.error # Null
          /\ hpc' = "responded"
          /\ NoFetchIssued']_vars
  /\ []((Responded /\ Status = 400) => NoFetchIssued)
  /\ [](hpc \in {"index", "aggregate"} =>
          (timer.state = "armed" /\ timer.deadline = INDEX_TIMEOUT))
  /\ [](hpc = "responded" <=> timer.state = "cleared")

\* The lookup was pending at the deadline: the timeout has fired, the request
\* was answered with the error of the abort, nothing was fetched and the
\* timeout is cleared.
C22_Witness ==
  /\ request.service = "near"
  /\ timer.fired /\ timer.state = "cleared"
  /\ now >= INDEX_TIMEOUT
  /\ Responded /\ Status = 400
  /\ Len(contractIds) > 0 /\ NoFetchIssued

(***************************************************************************)
(* C30.  One response per request.                                         *)
(***************************************************************************)
\* C30: every request is answered when its upstream calls settle, the
\* handler is through exactly when the answer is sent, and an answer that
\* was sent is never followed by another one.
C30_ExactlyOneResponse ==
  /\ <>Responded
  /\ [](Responded <=> hpc = "responded")
  /\ [][Responded => response' = response]_vars

\* The NEAR token handler has answered with the tokens although its timeout
\* fired while the tokens were being fetched.
C30_Witness ==
  /\ request.service = "near"
  /\ Responded /\ Status = 200
  /\ timer.fired /\ timer.state = "cleared"
  /\ Len(TokensSent) > 0

====
